---- MODULE Spec2Model ----
(***************************************************************************)
(* A model of src/cargo/util/graph.rs: Graph<N>, a HashMap from a node to  *)
(* the HashSet of its successors, with add, link, edges, iter, sort (a     *)
(* recursive depth-first visit), path_to_top, clone and equality.          *)
(*                                                                         *)
(* A HashMap<N, HashSet<N>> is a function from its keys to sets of nodes.  *)
(* The iteration order of a HashMap or HashSet is unspecified: wherever    *)
(* the code iterates, the model takes any order.                           *)
(***************************************************************************)
EXTENDS Naturals, Sequences, FiniteSets

\* The node identifiers (N: Eq + Hash + Clone).
Node == {"A", "B", "C"}

\* The node identifiers used when two graphs are built and compared.
EqNode == {"A", "B"}

\* The longest `children` slice handed to add.
MaxChildren == 2

\* The number of add/link calls made in all on the two graphs that are compared.
MaxEqCalls == 4

VARIABLES
    nodes,      \* Graph.nodes of the graph under test
    added,      \* every node passed as the first argument of add or link
    given,      \* for each node, every child passed together with it
    pc,         \* where the caller is: idle, or in / after sort or path_to_top
    ret,        \* sort: the output vector
    marks,      \* sort: the HashMap<N, Mark>
    todo,       \* sort: the keys the outer loop has not yet reached
    stack,      \* sort: the frames of visit, each a node and its children not yet iterated
    start,      \* path_to_top: the argument as passed
    pkg,        \* path_to_top: the current package
    result,     \* path_to_top: the path built so far
    korder,     \* path_to_top: the order in which the map iterates during the call
    out,        \* what the last edges / iter / == call returned
    other,      \* Graph.nodes of a second graph
    hist,       \* the first arguments of the calls that built nodes, in call order
    hist2       \* the first arguments of the calls that built other, in call order

vars == <<nodes, added, given, pc, ret, marks, todo, stack, start, pkg, result,
          korder, out, other, hist, hist2>>

sortVars == <<ret, marks, todo, stack>>
pathVars == <<start, pkg, result, korder>>
eqVars == <<other, hist, hist2>>

----------------------------------------------------------------------------
\* Helpers for maps, sets and sequences.

Range(s) == {s[i] : i \in 1..Len(s)}

BoundedSeq(S, n) == UNION {[1..k -> S] : k \in 0..n}

\* Every order in which a set can be iterated: each element once.
Perms(S) ==
    {s \in [1..Cardinality(S) -> S] : \A i, j \in 1..Cardinality(S) : i # j => s[i] # s[j]}

\* HashMap::new()
EmptyMap == [k \in {} |-> {}]

\* HashMap::insert(k, v)
Put(m, k, v) == [x \in DOMAIN m \cup {k} |-> IF x = k THEN v ELSE m[x]]

NoValue == "-"

NoOut == [op |-> "none", arg |-> NoValue, found |-> FALSE, items |-> <<>>]

----------------------------------------------------------------------------
\* Graph::new, Graph::add, Graph::link, Graph::clone, PartialEq.

\* Graph::new(): nodes: HashMap::new()
NewGraph == EmptyMap

\* entry(node).or_insert_with(HashSet::new): the set stored for node, created empty if absent
EntryOrEmpty(g, node) == IF node \in DOMAIN g THEN g[node] ELSE {}

\* add with the stored set replaced by the batch instead of extended (C7's mutant).
GraphAddReplace(g, node, children) == Put(g, node, Range(children))

\* add that also registers every child as a key (C6's mutant).
GraphAddRegisterChildren(g, node, children) ==
    [x \in DOMAIN g \cup {node} \cup Range(children) |->
        IF x = node THEN EntryOrEmpty(g, node) \cup Range(children)
        ELSE EntryOrEmpty(g, x)]

\* Graph::add(node, children)
GraphAdd(g, node, children) ==
    Put(g, node, EntryOrEmpty(g, node) \cup Range(children))

\* link that also registers the child as a key (C5's mutant).
GraphLinkRegisterChild(g, node, child) ==
    [x \in DOMAIN g \cup {node, child} |->
        IF x = node THEN EntryOrEmpty(g, node) \cup {child}
        ELSE EntryOrEmpty(g, x)]

\* Graph::link(node, child)
GraphLink(g, node, child) ==
    Put(g, node, EntryOrEmpty(g, node) \cup {child})

\* Graph::clone(): nodes: self.nodes.clone()
GraphClone(g) == [k \in DOMAIN g |-> g[k]]

\* HashSet == HashSet: the same length, and every element of a is in b.
SetEq(a, b) == Cardinality(a) = Cardinality(b) /\ \A x \in a : x \in b

\* Equality that only compares the entries of the left graph (C8's mutant).
GraphEqNoLen(g, h) ==
    \A k \in DOMAIN g : k \in DOMAIN h /\ SetEq(g[k], h[k])

\* PartialEq::eq: self.nodes.eq(&other.nodes), HashMap == HashMap: the same
\* length, and every key of self is a key of other with an equal set.
GraphEq(g, h) ==
    /\ Cardinality(DOMAIN g) = Cardinality(DOMAIN h)
    /\ \A k \in DOMAIN g : k \in DOMAIN h /\ SetEq(g[k], h[k])

----------------------------------------------------------------------------
\* The state after construction, and the calls that build the graph.

Init ==
    /\ nodes = NewGraph
    /\ added = {}
    /\ given = [n \in Node |-> {}]
    /\ pc = "idle"
    /\ ret = <<>>
    /\ marks = EmptyMap
    /\ todo = {}
    /\ stack = <<>>
    /\ start = NoValue
    /\ pkg = NoValue
    /\ result = <<>>
    /\ korder = <<>>
    /\ out = NoOut
    /\ other = NewGraph
    /\ hist = <<>>
    /\ hist2 = <<>>

\* No call is running: a new call can be made. A panic ends the program.
Ready == pc \in {"idle", "sorted", "pathdone"}

\* The locals and results of the previous call are gone when the next call starts.
DropSort == ret' = <<>> /\ marks' = EmptyMap /\ todo' = {} /\ stack' = <<>>
DropPath == start' = NoValue /\ pkg' = NoValue /\ result' = <<>> /\ korder' = <<>>

Add(node, children) ==
    /\ Ready
    /\ nodes' = GraphAdd(nodes, node, children)
    /\ added' = added \cup {node}
    /\ given' = [given EXCEPT ![node] = @ \cup Range(children)]
    /\ pc' = "idle"
    /\ out' = NoOut
    /\ DropSort /\ DropPath
    /\ UNCHANGED eqVars

Link(node, child) ==
    /\ Ready
    /\ nodes' = GraphLink(nodes, node, child)
    /\ added' = added \cup {node}
    /\ given' = [given EXCEPT ![node] = @ \cup {child}]
    /\ pc' = "idle"
    /\ out' = NoOut
    /\ DropSort /\ DropPath
    /\ UNCHANGED eqVars

----------------------------------------------------------------------------
\* Graph::edges and Graph::iter.

\* edges(node): self.nodes.get(node).map(|set| set.iter()); order is one iteration order.
Edges(g, node, order) ==
    IF node \in DOMAIN g
    THEN [op |-> "edges", arg |-> node, found |-> TRUE, items |-> order]
    ELSE [op |-> "edges", arg |-> node, found |-> FALSE, items |-> <<>>]

CallEdges(node) ==
    /\ Ready
    /\ \E order \in Perms(EntryOrEmpty(nodes, node)) : out' = Edges(nodes, node, order)
    /\ pc' = "idle"
    /\ DropSort /\ DropPath
    /\ UNCHANGED <<nodes, added, given>>
    /\ UNCHANGED eqVars

\* iter(): self.nodes.keys()
CallIter ==
    /\ Ready
    /\ \E order \in Perms(DOMAIN nodes) :
          out' = [op |-> "iter", arg |-> NoValue, found |-> TRUE, items |-> order]
    /\ pc' = "idle"
    /\ DropSort /\ DropPath
    /\ UNCHANGED <<nodes, added, given>>
    /\ UNCHANGED eqVars

----------------------------------------------------------------------------
\* Graph::sort and Graph::visit.

\* sort(): let mut ret = Vec::new(); let mut marks = HashMap::new();
\* and the iterator of `for node in self.nodes.keys()` is created.
SortStart ==
    /\ Ready
    /\ pc' = "sort"
    /\ ret' = <<>>
    /\ marks' = EmptyMap
    /\ todo' = DOMAIN nodes
    /\ stack' = <<>>
    /\ out' = NoOut
    /\ DropPath
    /\ UNCHANGED <<nodes, added, given>>
    /\ UNCHANGED eqVars

\* The call visit(node, dst, marks), made when the caller's stack is stk, up to
\* the head of its loop over the children:
\*   if marks.contains_key(node) { return; }
\*   marks.insert(node.clone(), Mark::InProgress);
\*   for child in &self.nodes[node]      (indexing a HashMap panics on a missing key)
EnterVisit(node, stk) ==
    IF node \in DOMAIN marks
    THEN /\ marks' = marks
         /\ stack' = stk
         /\ pc' = "sort"
    ELSE /\ marks' = Put(marks, node, "InProgress")
         /\ IF node \in DOMAIN nodes
            THEN /\ stack' = Append(stk, [node |-> node, rest |-> nodes[node]])
                 /\ pc' = "sort"
            ELSE /\ stack' = stk
                 /\ pc' = "panic"

\* sort's loop: for node in self.nodes.keys() { self.visit(node, &mut ret, &mut marks); }
SortLoop ==
    /\ pc = "sort"
    /\ stack = <<>>
    /\ \E node \in todo :
          /\ todo' = todo \ {node}
          /\ EnterVisit(node, stack)
    /\ UNCHANGED <<nodes, added, given, ret, out>>
    /\ UNCHANGED pathVars
    /\ UNCHANGED eqVars

Top == stack[Len(stack)]

Pop(stk) == SubSeq(stk, 1, Len(stk) - 1)

\* visit's loop: for child in &self.nodes[node] { self.visit(child, dst, marks); }
VisitChild ==
    /\ pc = "sort"
    /\ stack # <<>>
    /\ \E child \in Top.rest :
          EnterVisit(child, [stack EXCEPT ![Len(stack)].rest = @ \ {child}])
    /\ UNCHANGED <<nodes, added, given, ret, todo, out>>
    /\ UNCHANGED pathVars
    /\ UNCHANGED eqVars

\* A push at the front of the vector instead of its end (C2's mutant).
PushFront(dst, node) == <<node>> \o dst

\* dst.push(node.clone())
Push(dst, node) == Append(dst, node)

\* The end of visit without its last line, marks.insert(node, Done) (C10's mutant).
VisitFinishNoMark ==
    /\ pc = "sort"
    /\ stack # <<>>
    /\ Top.rest = {}
    /\ ret' = Push(ret, Top.node)
    /\ stack' = Pop(stack)
    /\ UNCHANGED <<nodes, added, given, pc, marks, todo, out>>
    /\ UNCHANGED pathVars
    /\ UNCHANGED eqVars

\* The end of visit, its loop over the children done:
\*   dst.push(node.clone()); marks.insert(node.clone(), Mark::Done);
VisitFinish ==
    /\ pc = "sort"
    /\ stack # <<>>
    /\ Top.rest = {}
    /\ ret' = Push(ret, Top.node)
    /\ marks' = Put(marks, Top.node, "Done")
    /\ stack' = Pop(stack)
    /\ UNCHANGED <<nodes, added, given, pc, todo, out>>
    /\ UNCHANGED pathVars
    /\ UNCHANGED eqVars

\* sort returns Some(ret).
SortReturn ==
    /\ pc = "sort"
    /\ stack = <<>>
    /\ todo = {}
    /\ pc' = "sorted"
    /\ UNCHANGED <<nodes, added, given, ret, marks, todo, stack, out>>
    /\ UNCHANGED pathVars
    /\ UNCHANGED eqVars

----------------------------------------------------------------------------
\* Graph::path_to_top.

\* The least element of a non-empty set of numbers.
Least(S) == CHOOSE i \in S : \A j \in S : i <= j

\* The closure without its second filter, !res.contains(&_node) (C4's mutant).
FirstPkgNoCycleGuard(g, order, p, res) ==
    LET hits == {i \in 1..Len(order) : p \in g[order[i]]}
    IN  IF hits = {} THEN NoValue ELSE order[Least(hits)]

\* The closure following the edges forwards: the keys p points at (C9's mutant).
FirstPkgDependedOn(g, order, p, res) ==
    LET hits == {i \in 1..Len(order) :
                    /\ order[i] \in EntryOrEmpty(g, p)
                    /\ order[i] \notin Range(res)}
    IN  IF hits = {} THEN NoValue ELSE order[Least(hits)]

\* The closure first_pkg_depending_on(pkg, res): the first entry of the map, in
\* its iteration order, whose set contains pkg and whose key is not in res.
FirstPkgDependingOn(g, order, p, res) ==
    LET hits == {i \in 1..Len(order) :
                    /\ p \in g[order[i]]
                    /\ order[i] \notin Range(res)}
    IN  IF hits = {} THEN NoValue ELSE order[Least(hits)]

\* path_to_top(pkg): let mut result = vec![pkg]; the map is not changed during
\* the call, so each of its iterations runs in the same order.
PathStart(p) ==
    /\ Ready
    /\ \E order \in Perms(DOMAIN nodes) : korder' = order
    /\ start' = p
    /\ pkg' = p
    /\ result' = <<p>>
    /\ pc' = "path"
    /\ out' = NoOut
    /\ DropSort
    /\ UNCHANGED <<nodes, added, given>>
    /\ UNCHANGED eqVars

\* while let Some(p) = first_pkg_depending_on(pkg, &result) { result.push(p); pkg = p; }
PathPush ==
    /\ pc = "path"
    /\ LET p == FirstPkgDependingOn(nodes, korder, pkg, result)
       IN  /\ p # NoValue
           /\ result' = Append(result, p)
           /\ pkg' = p
    /\ UNCHANGED <<nodes, added, given, pc, start, korder, out>>
    /\ UNCHANGED sortVars
    /\ UNCHANGED eqVars

\* The closure returns None: the loop ends and path_to_top returns result.
PathReturn ==
    /\ pc = "path"
    /\ FirstPkgDependingOn(nodes, korder, pkg, result) = NoValue
    /\ pc' = "pathdone"
    /\ UNCHANGED <<nodes, added, given, start, pkg, result, korder, out>>
    /\ UNCHANGED sortVars
    /\ UNCHANGED eqVars

----------------------------------------------------------------------------

Next ==
    \/ \E node \in Node : \E children \in BoundedSeq(Node, MaxChildren) : Add(node, children)
    \/ \E node \in Node : \E child \in Node : Link(node, child)
    \/ \E node \in Node : CallEdges(node)
    \/ CallIter
    \/ SortStart
    \/ SortLoop
    \/ VisitChild
    \/ VisitFinish
    \/ SortReturn
    \/ \E p \in Node : PathStart(p)
    \/ PathPush
    \/ PathReturn

Spec == Init /\ [][Next]_vars

----------------------------------------------------------------------------
\* Two graphs, built by their own calls, cloned and compared.

\* The calls made so far on the two graphs.
EqCalls == Len(hist) + Len(hist2)

AddSelf(node, children) ==
    /\ EqCalls < MaxEqCalls
    /\ nodes' = GraphAdd(nodes, node, children)
    /\ added' = added \cup {node}
    /\ given' = [given EXCEPT ![node] = @ \cup Range(children)]
    /\ hist' = Append(hist, node)
    /\ out' = NoOut
    /\ UNCHANGED <<pc, other, hist2>>
    /\ UNCHANGED sortVars
    /\ UNCHANGED pathVars

LinkSelf(node, child) ==
    /\ EqCalls < MaxEqCalls
    /\ nodes' = GraphLink(nodes, node, child)
    /\ added' = added \cup {node}
    /\ given' = [given EXCEPT ![node] = @ \cup {child}]
    /\ hist' = Append(hist, node)
    /\ out' = NoOut
    /\ UNCHANGED <<pc, other, hist2>>
    /\ UNCHANGED sortVars
    /\ UNCHANGED pathVars

AddOther(node, children) ==
    /\ EqCalls < MaxEqCalls
    /\ other' = GraphAdd(other, node, children)
    /\ hist2' = Append(hist2, node)
    /\ out' = NoOut
    /\ UNCHANGED <<nodes, added, given, pc, hist>>
    /\ UNCHANGED sortVars
    /\ UNCHANGED pathVars

LinkOther(node, child) ==
    /\ EqCalls < MaxEqCalls
    /\ other' = GraphLink(other, node, child)
    /\ hist2' = Append(hist2, node)
    /\ out' = NoOut
    /\ UNCHANGED <<nodes, added, given, pc, hist>>
    /\ UNCHANGED sortVars
    /\ UNCHANGED pathVars

\* other = self.clone(), made while other is still new.
CloneSelf ==
    /\ hist2 = <<>>
    /\ Len(hist) + Len(hist) <= MaxEqCalls
    /\ other' = GraphClone(nodes)
    /\ hist2' = hist
    /\ out' = NoOut
    /\ UNCHANGED <<nodes, added, given, pc, hist>>
    /\ UNCHANGED sortVars
    /\ UNCHANGED pathVars

\* self == other
Compare ==
    /\ out' = [op |-> "eq", arg |-> NoValue, found |-> GraphEq(nodes, other), items |-> <<>>]
    /\ UNCHANGED <<nodes, added, given, pc>>
    /\ UNCHANGED sortVars
    /\ UNCHANGED pathVars
    /\ UNCHANGED eqVars

NextEq ==
    \/ \E node \in EqNode : \E children \in BoundedSeq(EqNode, MaxChildren) : AddSelf(node, children)
    \/ \E node \in EqNode : \E child \in EqNode : LinkSelf(node, child)
    \/ \E node \in EqNode : \E children \in BoundedSeq(EqNode, MaxChildren) : AddOther(node, children)
    \/ \E node \in EqNode : \E child \in EqNode : LinkOther(node, child)
    \/ CloneSelf
    \/ Compare

SpecEq == Init /\ [][NextEq]_vars

----------------------------------------------------------------------------
\* The vocabulary of the properties.

\* No element occurs twice in the sequence.
NoDuplicates(s) == \A i, j \in 1..Len(s) : i # j => s[i] # s[j]

\* The sequence holds every element of S exactly once and nothing else.
ExactlyOnce(s, S) == Len(s) = Cardinality(S) /\ Range(s) = S

\* The position of x in a sequence that holds it.
Pos(s, x) == CHOOSE i \in 1..Len(s) : s[i] = x

RECURSIVE Reach(_, _)
\* The nodes reachable from the set S along recorded edges, S included.
Reach(g, S) ==
    LET T == S \cup UNION {EntryOrEmpty(g, n) : n \in S}
    IN  IF T = S THEN S ELSE Reach(g, T)

\* Some node reaches itself along one or more recorded edges.
HasCycle(g) == \E n \in DOMAIN g : n \in Reach(g, g[n])

\* Some successor was never added as a key.
HasDangling(g) == \E k \in DOMAIN g : \E c \in g[k] : c \notin DOMAIN g

\* A node's mark, absence from the mark map being Unvisited.
MarkOf(m, n) == IF n \in DOMAIN m THEN m[n] ELSE "Unvisited"

MarkRank(mk) == CASE mk = "Unvisited" -> 0 [] mk = "InProgress" -> 1 [] mk = "Done" -> 2

\* The nodes whose visit is running.
OnStack == {stack[i].node : i \in 1..Len(stack)}

----------------------------------------------------------------------------
\* C1: on every graph built by add and link, also one with a successor that was
\* never added as a key, sort() does not fail, and the sequence it returns
\* holds every key exactly once and nothing else.
C1_SortNeverFails ==
    /\ pc # "panic"
    /\ pc = "sorted" => ExactlyOnce(ret, DOMAIN nodes)

\* C2: when sort() returns on an acyclic graph, for every recorded edge u -> v
\* both u and v are in the returned sequence and v stands before u.
C2_EdgesOrdered ==
    (pc = "sorted" /\ ~HasCycle(nodes)) =>
        \A u \in DOMAIN nodes : \A v \in nodes[u] :
            /\ u \in Range(ret)
            /\ v \in Range(ret)
            /\ Pos(ret, v) < Pos(ret, u)

\* C2's case: sort() has returned on an acyclic chain u -> v -> w of three nodes.
C2_Witness ==
    /\ pc = "sorted"
    /\ ~HasCycle(nodes)
    /\ \E u, v, w \in DOMAIN nodes :
          u # v /\ v # w /\ u # w /\ v \in nodes[u] /\ w \in nodes[v]

\* C3: on a graph containing a cycle, sort() does not fail, no node is visited
\* or put out twice, and the sequence returned holds exactly the keys, each once.
C3_CyclicSortReturns ==
    HasCycle(nodes) =>
        /\ pc # "panic"
        /\ pc \in {"sort", "sorted"} =>
              /\ NoDuplicates(ret)
              /\ \A i, j \in 1..Len(stack) : i # j => stack[i].node # stack[j].node
              /\ Range(ret) \cap OnStack = {}
        /\ pc = "sorted" => ExactlyOnce(ret, DOMAIN nodes)

\* C4: path_to_top(start) builds a non-empty sequence that begins with start
\* and holds no node twice, so that its loop runs at most once per key; and
\* when no key has start in its successor set it returns exactly [start].
C4_PathSafe ==
    pc \in {"path", "pathdone"} =>
        /\ Len(result) >= 1
        /\ result[1] = start
        /\ NoDuplicates(result)
        /\ Len(result) <= Cardinality(DOMAIN nodes) + 1
        /\ (pc = "pathdone" /\ \A k \in DOMAIN nodes : start \notin nodes[k])
              => result = <<start>>

\* C4's case: path_to_top(X) has returned [X, Y] on a graph with X -> Y and Y -> X.
C4_Witness ==
    /\ pc = "pathdone"
    /\ Len(result) = 2
    /\ result[1] # result[2]
    /\ result[1] \in DOMAIN nodes
    /\ result[2] \in nodes[result[1]]
    /\ result[1] \in nodes[result[2]]

\* C5: edges(node) returns 'not found' if and only if node was never passed as
\* the first argument of add or link.
C5_EdgesNotFoundIff ==
    out.op = "edges" => (~out.found <=> out.arg \notin added)

\* C5's case: edges(node) is 'not found' for a node that is a child of some key.
C5_Witness ==
    /\ out.op = "edges"
    /\ ~out.found
    /\ \E k \in DOMAIN nodes : out.arg \in nodes[k]

\* C6: the node iteration yields exactly the nodes passed as the first argument
\* of some add or link call, each once.
C6_IterYieldsAdded ==
    out.op = "iter" => ExactlyOnce(out.items, added)

\* C6's case: the iteration yields two keys and leaves out a node that is only a child.
C6_Witness ==
    /\ out.op = "iter"
    /\ Len(out.items) = 2
    /\ \E k \in DOMAIN nodes : \E c \in nodes[k] : c \notin Range(out.items)

\* C7: edges(A), when found, yields exactly the children ever passed together
\* with A by add or link, each once.
C7_EdgesAccumulate ==
    (out.op = "edges" /\ out.found) => ExactlyOnce(out.items, given[out.arg])

\* C7's case: edges(A) yields more children than one add call can pass.
C7_Witness ==
    /\ out.op = "edges"
    /\ out.found
    /\ Len(out.items) > MaxChildren

\* C8: two graphs compare equal if and only if they have the same keys and, for
\* each key, the same successor set, however each of them was built.
C8_EqIffSameMapping ==
    out.op = "eq" =>
        (out.found <=>
            /\ DOMAIN nodes = DOMAIN other
            /\ \A k \in DOMAIN nodes : nodes[k] = other[k])

\* C8's case: two graphs with an edge, built by calls in opposite orders, compare equal.
C8_Witness ==
    /\ out.op = "eq"
    /\ out.found
    /\ Len(hist) = 2
    /\ hist[1] # hist[2]
    /\ hist2 = <<hist[2], hist[1]>>
    /\ \E k \in DOMAIN nodes : nodes[k] # {}

\* C9: in the path of path_to_top every element after the first is a key whose
\* successor set holds the element before it, and when the call has returned
\* no key outside the path has the last element in its successor set.
C9_PathFollowsEdges ==
    pc \in {"path", "pathdone"} =>
        /\ \A i \in 2..Len(result) :
              /\ result[i] \in DOMAIN nodes
              /\ result[i - 1] \in nodes[result[i]]
        /\ pc = "pathdone" =>
              \A k \in DOMAIN nodes :
                  result[Len(result)] \in nodes[k] => k \in Range(result)

\* C9's case: path_to_top has returned a path of three nodes.
C9_Witness ==
    /\ pc = "pathdone"
    /\ Len(result) = 3

\* A step of one sort() call, as C10 states it.
C10_Step ==
    pc = "sort" =>
        /\ \A n \in Node :
              /\ MarkRank(MarkOf(marks', n)) >= MarkRank(MarkOf(marks, n))
              /\ MarkRank(MarkOf(marks', n)) <= MarkRank(MarkOf(marks, n)) + 1
              /\ (MarkOf(marks, n) = "InProgress" /\ MarkOf(marks', n) = "Done")
                    <=> ret' = Append(ret, n)
              /\ (MarkOf(marks, n) = "InProgress" /\ MarkOf(marks', n) = "Done") =>
                    \A c \in nodes[n] : MarkOf(marks, c) = "Done" \/ c \in OnStack
        /\ ret' # ret => \E n \in Node : ret' = Append(ret, n)
        /\ Len(stack') > Len(stack) =>
              MarkOf(marks, stack'[Len(stack')].node) = "Unvisited"

\* C10: during one sort() call a node's mark only moves Unvisited -> InProgress
\* -> Done; visit recurses only into an unmarked node; a node is appended to the
\* output exactly at its InProgress -> Done step, when each of its successors is
\* Done or is being visited; and when sort() returns every key is Done.
C10_MarksMonotone ==
    /\ [][C10_Step]_vars
    /\ [](pc = "sorted" => \A k \in DOMAIN nodes : MarkOf(marks, k) = "Done")

\* C10's case: sort() has returned on a graph of three keys that has a cycle.
C10_Witness ==
    /\ pc = "sorted"
    /\ HasCycle(nodes)
    /\ Len(ret) = 3

====
